---- MODULE Spec2Model ----
(***************************************************************************)
(* Model of protoplaster's system report generator                         *)
(* (src/protoplaster/report_generators/system_report/                      *)
(*  protoplaster_system_report.py).                                        *)
(*                                                                         *)
(* The program reads a YAML mapping of commands, builds one CommandConfig  *)
(* per item (validation and the privilege gate live in the constructor),   *)
(* drives every command through a worker thread while the main thread      *)
(* polls an Event and repaints a status line, collects the results into    *)
(* the file list and writes the archive.                                   *)
(*                                                                         *)
(* Texts the program only carries around (script texts, titles, file       *)
(* names, captured outputs, printed lines) are symbolic tuples, distinct   *)
(* per position in the configuration; Python's None is the empty tuple.    *)
(* A YAML mapping is a function whose DOMAIN is the set of keys present.   *)
(***************************************************************************)
EXTENDS Naturals, Sequences, FiniteSets

\* Bound of the model: the configuration file holds at most MaxEntries
\* entries, counting every command spec (top-level or on-fail) and every
\* entry of a summary list.
MaxEntries == 3

None == <<>>

\* ------------------------------------------------------------------------
\* The configuration file (the value yaml.safe_load returns)
\* ------------------------------------------------------------------------

\* The i-th key of the mapping, and the texts written at each position.
CommandName(i) == <<"cmd", i>>
ScriptText(name, depth) == <<"run", name, depth>>
OutputName(name, depth) == <<"out", name, depth>>
SummaryTitle(name, depth, j) == <<"title", name, depth, j>>
SummaryScript(name, depth, j) == <<"sum", name, depth, j>>

\* One entry of a `summary` list: complete, or lacking one of its two keys.
SummaryEntry(name, depth, j, kind) ==
    CASE kind = "complete" -> [title |-> SummaryTitle(name, depth, j),
                               run |-> SummaryScript(name, depth, j)]
      [] kind = "no-title" -> [run |-> SummaryScript(name, depth, j)]
      [] kind = "no-run"   -> [title |-> SummaryTitle(name, depth, j)]

SummaryKinds == {"complete", "no-title", "no-run"}

\* Every `summary` list of at most n entries.
SummaryLists(name, depth, n) ==
    UNION {{[j \in 1..len |-> SummaryEntry(name, depth, j, kinds[j])] :
              kinds \in [1..len -> SummaryKinds]} : len \in 0..n}

\* The keys of a command mapping other than on-fail.  Each key is drawn as
\* <<>> (key absent) or <<v>> (key present with value v); an output key,
\* when present, holds a file name.  A mapping that the constructor rejects
\* at line 35 stands for every mapping with the same defect: its summary
\* and on-fail keys are never looked at.
CommandFields(r, o, s) ==
    [k \in (IF r = <<>> THEN {} ELSE {"run"})
           \cup (IF o = <<>> THEN {} ELSE {"output"})
           \cup (IF s = <<>> THEN {} ELSE {"superuser"}) |->
        CASE k = "run" -> r[1]
          [] k = "output" -> o[1]
          [] k = "superuser" -> s[1]]

WithKey(config, key, value) ==
    [k \in DOMAIN config \cup {key} |-> IF k = key THEN value ELSE config[k]]

FieldsAccepted(config) ==
    /\ "run" \in DOMAIN config
    /\ "output" \in DOMAIN config
    /\ ("superuser" \in DOMAIN config =>
           config["superuser"] \in {"required", "preferred"})

HeadFields(name, depth, maxSummaries) ==
    LET plain == {CommandFields(r, o, s) :
                    r \in {<<>>, <<ScriptText(name, depth)>>},
                    o \in {<<>>, <<OutputName(name, depth)>>},
                    s \in {<<>>, <<"required">>, <<"preferred">>, <<"always">>}}
    IN  plain \cup
        {WithKey(h, "summary", l) :
            h \in {h \in plain : FieldsAccepted(h)},
            l \in SummaryLists(name, depth, maxSummaries) \ {<<>>}}

CountSummaries(config) ==
    IF "summary" \in DOMAIN config THEN Len(config["summary"]) ELSE 0

\* Every command mapping at `depth` of a chain that holds at most
\* maxEntries entries (maxEntries >= 1).
RECURSIVE CommandMappings(_, _, _)
CommandMappings(name, depth, maxEntries) ==
    LET heads == HeadFields(name, depth, maxEntries - 1)
        complete == {h \in heads : /\ FieldsAccepted(h)
                                   /\ \A j \in 1..CountSummaries(h) :
                                         DOMAIN h["summary"][j] = {"title", "run"}}
    IN  heads \cup
        UNION {{WithKey(h, "on-fail", f) :
                  f \in CommandMappings(name, depth + 1,
                                        maxEntries - 1 - CountSummaries(h))} :
               h \in {h \in complete : maxEntries - 1 - CountSummaries(h) >= 1}}

\* ------------------------------------------------------------------------
\* SummaryConfig and CommandConfig (the constructors validate and exit)
\* ------------------------------------------------------------------------

\* The constructors either build an object or print and call sys.exit(1):
\* [exit, printed, value] carries which, the lines printed on the way, and
\* the object built.
\* SummaryConfig without the check of line 20: an entry lacking a key is
\* built with None in its place.
SummaryConfigUnchecked(config) ==
    [exit |-> FALSE, printed |-> <<>>,
     value |-> [title |-> IF "title" \in DOMAIN config THEN config["title"] ELSE None,
                script |-> IF "run" \in DOMAIN config THEN config["run"] ELSE None]]

SummaryConfig(config) ==
    IF "title" \in DOMAIN config /\ "run" \in DOMAIN config
    THEN [exit |-> FALSE, printed |-> <<>>,
          value |-> [title |-> config["title"], script |-> config["run"]]]
    ELSE [exit |-> TRUE, printed |-> <<<<"Error: summary config is incomplete">>>>,
          value |-> None]

\* [SummaryConfig(c) for c in config.get("summary", [])]: entries are built
\* left to right and the first incomplete one exits.
RECURSIVE SummaryConfigs(_)
SummaryConfigs(entries) ==
    IF entries = <<>>
    THEN [exit |-> FALSE, printed |-> <<>>, value |-> <<>>]
    ELSE LET first == SummaryConfig(entries[1])
         IN  IF first.exit THEN first
             ELSE LET rest == SummaryConfigs(Tail(entries))
                  IN  [exit |-> rest.exit, printed |-> rest.printed,
                       value |-> IF rest.exit THEN None
                                 ELSE <<first.value>> \o rest.value]

\* config.get(key, default)
Get(config, key, default) ==
    IF key \in DOMAIN config THEN config[key] ELSE default

\* PrivilegeGate with `preferred` handled like `required`: the process
\* exits on any unmet superuser key.
PrivilegeGateStrict(config, root) ==
    IF "superuser" \in DOMAIN config /\ ~root
    THEN [exit |-> TRUE,
          printed |-> <<<<"Error: insufficient permissions", config["run"]>>>>]
    ELSE [exit |-> FALSE, printed |-> <<>>]

\* PrivilegeGate with `required` handled like `preferred`: a warning, and
\* the constructor goes on.
PrivilegeGateWarningOnly(config, root) ==
    IF "superuser" \in DOMAIN config /\ ~root
    THEN [exit |-> FALSE,
          printed |-> <<<<"Warning: insufficient permissions", config["run"]>>>>]
    ELSE [exit |-> FALSE, printed |-> <<>>]

\* Lines 40-49: the privilege gate.  "exit" for required, a warning line
\* for anything else, nothing when the key is absent or the user is root.
PrivilegeGate(config, root) ==
    IF "superuser" \in DOMAIN config /\ ~root
    THEN IF config["superuser"] = "required"
         THEN [exit |-> TRUE,
               printed |-> <<<<"Error: insufficient permissions", config["run"]>>>>]
         ELSE [exit |-> FALSE,
               printed |-> <<<<"Warning: insufficient permissions", config["run"]>>>>]
    ELSE [exit |-> FALSE, printed |-> <<>>]

RECURSIVE CommandConfig(_, _, _)
CommandConfig(name, config, root) ==
    LET required_fields_present == "run" \in DOMAIN config /\ "output" \in DOMAIN config
        superuser_correct == \/ "superuser" \notin DOMAIN config
                             \/ config["superuser"] \in {"required", "preferred"}
    IN
    IF ~required_fields_present \/ ~superuser_correct
    THEN [exit |-> TRUE, printed |-> <<<<"Error: config is invalid", name>>>>,
          value |-> None]
    ELSE
    LET gate == PrivilegeGate(config, root) IN
    IF gate.exit
    THEN [exit |-> TRUE, printed |-> gate.printed, value |-> None]
    ELSE
    LET summary_configs == SummaryConfigs(Get(config, "summary", <<>>)) IN
    IF summary_configs.exit
    THEN [exit |-> TRUE, printed |-> gate.printed \o summary_configs.printed,
          value |-> None]
    ELSE
    LET on_fail == IF "on-fail" \in DOMAIN config
                   THEN CommandConfig(name, config["on-fail"], root)
                   ELSE [exit |-> FALSE, printed |-> <<>>, value |-> None]
    IN  [exit |-> on_fail.exit,
         printed |-> gate.printed \o on_fail.printed,
         value |-> IF on_fail.exit THEN None
                   ELSE [name |-> name,
                         script |-> config["run"],
                         summary_configs |-> summary_configs.value,
                         output_file |-> Get(config, "output", None),
                         on_fail |-> on_fail.value]]

\* Number of specs in a chain, and of summary specs in it.
RECURSIVE ChainLength(_)
ChainLength(config) ==
    IF config = None THEN 0 ELSE 1 + ChainLength(config.on_fail)

RECURSIVE ChainSummaries(_)
ChainSummaries(config) ==
    IF config = None THEN 0
    ELSE Len(config.summary_configs) + ChainSummaries(config.on_fail)

\* Entries of the configuration file behind a list of built configs.
RECURSIVE TotalEntries(_)
TotalEntries(configs) ==
    IF configs = <<>> THEN 0
    ELSE ChainLength(configs[1]) + ChainSummaries(configs[1])
         + TotalEntries(Tail(configs))

\* ------------------------------------------------------------------------
\* State
\* ------------------------------------------------------------------------

VARIABLES
    pc,               \* where the main thread is
    is_root,          \* whether `id -u` prints 0 for this process
    static,           \* the static/ directory tree, once the walk has listed it
    yaml_config,      \* read_commands: the item last handed to CommandConfig
    command_configs,  \* read_commands: the list built so far
    stdout,           \* lines printed and ended by a newline
    line,             \* the terminal's current, unended line
    config,           \* generate_system_report: the loop variable (a closure cell)
    taken,            \* how many configs the for loop has taken
    sub_report,       \* closure cell written by run()
    finish_event,     \* closure cell: index in `events` of the current Event
    events,           \* the Event objects created so far: their flags
    spinner,          \* position of the itertools.cycle iterator
    threads,          \* the Thread objects created so far
    sub_reports,      \* results collected for the template
    files,            \* the file list under construction
    archive,          \* None until the archive file is opened, then its entries
    processes         \* every subprocess run for a script: [script, input, status]

vars == <<pc, is_root, static, yaml_config, command_configs, stdout, line, config, taken, sub_report,
          finish_event, events, spinner, threads, sub_reports, files, archive,
          processes>>

reader_vars == <<static, config, taken, sub_report, finish_event, events, spinner, threads,
                 sub_reports, files, archive, processes, line>>

\* The state after main() has parsed its arguments (and re-executed itself
\* under sudo when asked to): nothing read, nothing run.
Init ==
    /\ pc = "read_commands"
    /\ is_root \in BOOLEAN
    /\ static = None
    /\ yaml_config = None
    /\ command_configs = <<>>
    /\ stdout = <<>>
    /\ line = None
    /\ config = None
    /\ taken = 0
    /\ sub_report = None
    /\ finish_event = 0
    /\ events = <<>>
    /\ spinner = 0
    /\ threads = <<>>
    /\ sub_reports = <<>>
    /\ files = <<>>
    /\ archive = None
    /\ processes = {}

\* ------------------------------------------------------------------------
\* read_commands
\* ------------------------------------------------------------------------

\* One iteration of the loop at lines 106-107 on the next item of the
\* mapping: the constructor appends a config or exits the process.
ReadCommand ==
    /\ pc = "read_commands"
    /\ TotalEntries(command_configs) < MaxEntries
    /\ \E item \in
            CommandMappings(CommandName(Len(command_configs) + 1), 1,
                            MaxEntries - TotalEntries(command_configs)) :
          LET built == CommandConfig(CommandName(Len(command_configs) + 1),
                                     item, is_root)
          IN  /\ yaml_config' = item
              /\ stdout' = stdout \o built.printed
              /\ IF built.exit
                 THEN /\ pc' = "exited"
                      /\ UNCHANGED command_configs
                 ELSE /\ command_configs' = Append(command_configs, built.value)
                      /\ UNCHANGED pc
    /\ UNCHANGED <<is_root, reader_vars>>

\* The mapping has no further item: read_commands returns the list.
ReadCommandsReturn ==
    /\ pc = "read_commands"
    /\ pc' = "next_command"
    /\ yaml_config' = None
    /\ UNCHANGED <<is_root, command_configs, stdout, reader_vars>>

\* ------------------------------------------------------------------------
\* Scripts
\* ------------------------------------------------------------------------

\* What subprocess.check_output captures from a script: a text the program
\* never looks into.  A summary script's text depends on its input.
CapturedOutput(script, input) == <<"output of", script, input>>

\* check_output returns the captured text (exit status 0) or raises.
ExitStatuses == {"zero", "nonzero"}

\* The two dataclasses (lines 58-69).
SubReportSummary(title, content) == [title |-> title, content |-> content]

SubReportResult(name, raw_output, output_file, summaries) ==
    [name |-> name, raw_output |-> raw_output, output_file |-> output_file,
     summaries |-> summaries]

\* ------------------------------------------------------------------------
\* generate_system_report: the loop over the commands (main thread)
\* ------------------------------------------------------------------------

spinner_frames == <<"   ", ".  ", ".. ", "...">>

\* A Thread object and the locals of run_command in it: the spec being
\* attempted, its captured output, the summaries built so far, how many
\* summary configs the for loop has taken, and the value returned.
NewThread == [pc |-> "run", config |-> None, out |-> None, summaries |-> <<>>,
              taken |-> 0, result |-> None]

\* Lines 160-172: the for loop takes the next config, resets sub_report,
\* makes a new Event, prints "running <name>" without a newline, starts the
\* thread and makes the spinner iterator.  With no config left the loop ends.
StartCommand ==
    /\ pc = "next_command"
    /\ taken < Len(command_configs)
    /\ config' = command_configs[taken + 1]
    /\ taken' = taken + 1
    /\ sub_report' = None
    /\ events' = Append(events, FALSE)
    /\ finish_event' = Len(events) + 1
    /\ line' = <<"running", command_configs[taken + 1].name>>
    /\ threads' = Append(threads, NewThread)
    /\ spinner' = 0
    /\ pc' = "poll"
    /\ UNCHANGED <<is_root, static, yaml_config, command_configs, stdout, sub_reports, files, archive,
                   processes>>

\* PollFinished with the loop left after one wait whether or not the Event
\* is set.
PollOnce ==
    /\ pc = "poll"
    /\ pc' = "collect"
    /\ spinner' = 0
    /\ UNCHANGED <<is_root, static, yaml_config, command_configs, stdout, line, config, taken,
                   sub_report, finish_event, events, threads, sub_reports, files,
                   archive, processes>>

\* Line 173: finish_event.wait(0.5) returns True, the loop breaks and its
\* iterator is dropped.
PollFinished ==
    /\ pc = "poll"
    /\ events[finish_event]
    /\ pc' = "collect"
    /\ spinner' = 0
    /\ UNCHANGED <<is_root, static, yaml_config, command_configs, stdout, line, config, taken,
                   sub_report, finish_event, events, threads, sub_reports, files,
                   archive, processes>>

\* PollTimeout with the loop given up on the first wait that times out.
PollTimeoutGivingUp ==
    /\ pc = "poll"
    /\ ~events[finish_event]
    /\ pc' = "collect"
    /\ spinner' = 0
    /\ UNCHANGED <<is_root, static, yaml_config, command_configs, stdout, line, config,
                   taken, sub_report, finish_event, events, threads, sub_reports,
                   files, archive, processes>>

\* Lines 173-176: the wait times out; the line is repainted with the next
\* frame of the cycle.
PollTimeout ==
    /\ pc = "poll"
    /\ ~events[finish_event]
    /\ line' = <<"running", config.name, spinner_frames[spinner + 1]>>
    /\ spinner' = (spinner + 1) % Len(spinner_frames)
    /\ UNCHANGED <<pc, is_root, static, yaml_config, command_configs, stdout, config, taken, sub_report,
                   finish_event, events, threads, sub_reports, files, archive,
                   processes>>

\* Collect with a placeholder result collected for a command that failed.
CollectWithPlaceholder ==
    /\ pc = "collect"
    /\ sub_reports' = Append(sub_reports,
                             IF sub_report # None THEN sub_report
                             ELSE SubReportResult(config.name, None,
                                                  config.output_file, <<>>))
    /\ files' = IF sub_report # None /\ config.output_file # None
                THEN Append(files, <<config.output_file, sub_report.raw_output>>)
                ELSE files
    /\ stdout' = Append(stdout, <<"status", config.name,
                                  IF sub_report # None THEN "completed" ELSE "failed">>)
    /\ line' = None
    /\ pc' = "next_command"
    /\ UNCHANGED <<is_root, static, yaml_config, command_configs, config, taken, sub_report,
                   finish_event, events, spinner, threads, archive, processes>>

\* Collect with the final line reading "completed" whatever sub_report holds.
CollectReportingCompleted ==
    /\ pc = "collect"
    /\ IF sub_report # None
       THEN /\ sub_reports' = Append(sub_reports, sub_report)
            /\ files' = IF config.output_file # None
                        THEN Append(files, <<config.output_file, sub_report.raw_output>>)
                        ELSE files
       ELSE UNCHANGED <<sub_reports, files>>
    /\ stdout' = Append(stdout, <<"status", config.name, "completed">>)
    /\ line' = None
    /\ pc' = "next_command"
    /\ UNCHANGED <<is_root, static, yaml_config, command_configs, config, taken,
                   sub_report, finish_event, events, spinner, threads, archive,
                   processes>>

\* Lines 178-184: a truthy sub_report is collected, with a file entry when
\* the loop's config names an output file; the status line is rewritten
\* and ended.
Collect ==
    /\ pc = "collect"
    /\ IF sub_report # None
       THEN /\ sub_reports' = Append(sub_reports, sub_report)
            /\ files' = IF config.output_file # None
                        THEN Append(files, <<config.output_file, sub_report.raw_output>>)
                        ELSE files
            /\ stdout' = Append(stdout, <<"status", config.name, "completed">>)
       ELSE /\ stdout' = Append(stdout, <<"status", config.name, "failed">>)
            /\ UNCHANGED <<sub_reports, files>>
    /\ line' = None
    /\ pc' = "next_command"
    /\ UNCHANGED <<is_root, static, yaml_config, command_configs, config, taken, sub_report, finish_event,
                   events, spinner, threads, archive, processes>>

\* ------------------------------------------------------------------------
\* The worker thread: run() and run_command
\* ------------------------------------------------------------------------

Running(t) == threads[t].pc \in {"attempt", "summary"}

\* Line 166: run() reads the cell `config` and calls run_command on it.
ThreadRun(t) ==
    /\ threads[t].pc = "run"
    /\ threads' = [threads EXCEPT ![t].pc = "attempt", ![t].config = config]
    /\ UNCHANGED <<pc, is_root, static, yaml_config, command_configs, stdout, line, config, taken,
                   sub_report, finish_event, events, spinner, sub_reports, files,
                   archive, processes>>

\* AfterAttempt with the captured text kept across attempts: a failed
\* attempt's output survives into the result of the fallback.
AfterAttemptKeepingOutput(thread, status, out) ==
    LET spec == thread.config
        kept == IF thread.out # None THEN thread.out ELSE out
    IN
    IF status = "zero"
    THEN IF spec.summary_configs = <<>>
         THEN [thread EXCEPT !.pc = "store",
                  !.result = SubReportResult(spec.name, kept, spec.output_file, <<>>)]
         ELSE [thread EXCEPT !.pc = "summary", !.out = kept, !.summaries = <<>>,
                  !.taken = 0]
    ELSE IF spec.on_fail # None
         THEN [thread EXCEPT !.pc = "attempt", !.config = spec.on_fail, !.out = kept]
         ELSE [thread EXCEPT !.pc = "store", !.result = None]

\* AfterAttempt with the summaries run whether or not the script failed
\* (the summary loop moved out of the try block).
AfterAttemptSummarizingFailure(thread, status, out) ==
    LET spec == thread.config IN
    IF spec.summary_configs # <<>>
    THEN [thread EXCEPT !.pc = "summary", !.out = out, !.summaries = <<>>, !.taken = 0]
    ELSE IF status = "zero"
         THEN [thread EXCEPT !.pc = "store",
                  !.result = SubReportResult(spec.name, out, spec.output_file, <<>>)]
         ELSE IF spec.on_fail # None
              THEN [thread EXCEPT !.pc = "attempt", !.config = spec.on_fail]
              ELSE [thread EXCEPT !.pc = "store", !.result = None]

\* AfterAttempt with the last spec of a chain attempted again when it fails.
AfterAttemptRetrying(thread, status, out) ==
    LET spec == thread.config IN
    IF status = "zero"
    THEN IF spec.summary_configs = <<>>
         THEN [thread EXCEPT !.pc = "store",
                  !.result = SubReportResult(spec.name, out, spec.output_file, <<>>)]
         ELSE [thread EXCEPT !.pc = "summary", !.out = out, !.summaries = <<>>,
                  !.taken = 0]
    ELSE IF spec.on_fail # None
         THEN [thread EXCEPT !.pc = "attempt", !.config = spec.on_fail]
         ELSE [thread EXCEPT !.pc = "attempt"]

\* What run_command does once the script of `spec` has ended with `status`
\* and captured `out`: go on to the summaries, or to the fallback, or
\* return (lines 124-126 and 144-148).
AfterAttempt(thread, status, out) ==
    LET spec == thread.config IN
    IF status = "zero"
    THEN IF spec.summary_configs = <<>>
         THEN [thread EXCEPT !.pc = "store",
                  !.result = SubReportResult(spec.name, out, spec.output_file, <<>>)]
         ELSE [thread EXCEPT !.pc = "summary", !.out = out, !.summaries = <<>>,
                  !.taken = 0]
    ELSE IF spec.on_fail # None
         THEN [thread EXCEPT !.pc = "attempt", !.config = spec.on_fail]
         ELSE [thread EXCEPT !.pc = "store", !.result = None]

\* Attempt with the failure of a script reported on the terminal by the
\* worker (an except clause that prints what it caught).
AttemptPrintingFailure(t) ==
    /\ threads[t].pc = "attempt"
    /\ \E status \in ExitStatuses :
          /\ threads' = [threads EXCEPT ![t] =
                           AfterAttempt(threads[t], status,
                                        CapturedOutput(threads[t].config.script, None))]
          /\ processes' = processes \cup {[script |-> threads[t].config.script,
                                            input |-> None, status |-> status]}
          /\ stdout' = IF status = "nonzero"
                       THEN Append(stdout, <<"failed to run", threads[t].config.script>>)
                       ELSE stdout
    /\ UNCHANGED <<pc, is_root, static, yaml_config, command_configs, line, config,
                   taken, sub_report, finish_event, events, spinner, sub_reports,
                   files, archive>>

\* Line 124: the script of the current spec runs to its end.
Attempt(t) ==
    /\ threads[t].pc = "attempt"
    /\ \E status \in ExitStatuses :
          /\ threads' = [threads EXCEPT ![t] =
                           AfterAttempt(threads[t], status,
                                        CapturedOutput(threads[t].config.script, None))]
          /\ processes' = processes \cup {[script |-> threads[t].config.script,
                                            input |-> None, status |-> status]}
    /\ UNCHANGED <<pc, is_root, static, yaml_config, command_configs, stdout, line, config, taken,
                   sub_report, finish_event, events, spinner, sub_reports, files,
                   archive>>

\* AfterSummary with a failed summary left out of the list.
AfterSummaryDroppingFailed(summaries, summary_config, status, out) ==
    IF status = "zero"
    THEN Append(summaries,
                SubReportSummary(summary_config.title,
                                 CapturedOutput(summary_config.script, out)))
    ELSE summaries

\* AfterSummary with a failed script's output kept as the content.
AfterSummaryKeepingOutput(summaries, summary_config, status, out) ==
    Append(summaries,
           SubReportSummary(summary_config.title,
                            CapturedOutput(summary_config.script, out)))

\* Lines 138-143: the summary list after one summary script has ended.
AfterSummary(summaries, summary_config, status, out) ==
    IF status = "zero"
    THEN Append(summaries,
                SubReportSummary(summary_config.title,
                                 CapturedOutput(summary_config.script, out)))
    ELSE Append(summaries,
                SubReportSummary(summary_config.title, <<"this summary is empty">>))

\* Lines 126-144: the next summary script runs on the attempt's output;
\* after the last one run_command returns the SubReportResult.
Summary(t) ==
    /\ threads[t].pc = "summary"
    /\ LET thread == threads[t]
           spec == thread.config
           summary_config == spec.summary_configs[thread.taken + 1]
       IN  \E status \in ExitStatuses :
             LET summaries == AfterSummary(thread.summaries, summary_config,
                                           status, thread.out)
             IN  /\ threads' = [threads EXCEPT ![t] =
                        IF thread.taken + 1 < Len(spec.summary_configs)
                        THEN [thread EXCEPT !.summaries = summaries,
                                 !.taken = thread.taken + 1]
                        ELSE [thread EXCEPT !.pc = "store", !.summaries = summaries,
                                 !.taken = thread.taken + 1,
                                 !.result = SubReportResult(spec.name, thread.out,
                                                            spec.output_file,
                                                            summaries)]]
                 /\ processes' = processes \cup {[script |-> summary_config.script,
                                                   input |-> thread.out,
                                                   status |-> status]}
    /\ UNCHANGED <<pc, is_root, static, yaml_config, command_configs, stdout, line, config,
                   taken, sub_report, finish_event, events, spinner, sub_reports,
                   files, archive>>

\* Store with the assignment made to a local of run() (the nonlocal
\* declaration of line 165 left out): the cell keeps what it held.
StoreToLocal(t) ==
    /\ threads[t].pc = "store"
    /\ threads' = [threads EXCEPT ![t].pc = "set"]
    /\ UNCHANGED <<pc, is_root, static, yaml_config, command_configs, stdout, line,
                   config, taken, sub_report, finish_event, events, spinner,
                   sub_reports, files, archive, processes>>

\* Line 166: run_command has returned; run() assigns the cell sub_report.
Store(t) ==
    /\ threads[t].pc = "store"
    /\ sub_report' = threads[t].result
    /\ threads' = [threads EXCEPT ![t].pc = "set"]
    /\ UNCHANGED <<pc, is_root, static, yaml_config, command_configs, stdout, line, config, taken,
                   finish_event, events, spinner, sub_reports, files, archive,
                   processes>>

\* Line 167: run() sets the Event the cell finish_event holds, and ends.
SetEvent(t) ==
    /\ threads[t].pc = "set"
    /\ events' = [events EXCEPT ![finish_event] = TRUE]
    /\ threads' = [threads EXCEPT ![t] = [NewThread EXCEPT !.pc = "done"]]
    /\ UNCHANGED <<pc, is_root, static, yaml_config, command_configs, stdout, line, config, taken,
                   sub_report, finish_event, spinner, sub_reports, files, archive,
                   processes>>

Worker(t) == ThreadRun(t) \/ Attempt(t) \/ Summary(t) \/ Store(t) \/ SetEvent(t)

\* ------------------------------------------------------------------------
\* generate_system_report: the index, the stylesheet, the static assets
\* ------------------------------------------------------------------------

\* The template engine's rendering of the sub-reports: a text of its own.
generate_html(reports) == <<"rendering of", reports>>

\* Render with the stylesheet registered before the index.
RenderStylesheetFirst ==
    /\ pc = "next_command"
    /\ taken = Len(command_configs)
    /\ files' = files \o <<<<<<"style.css">>, <<"contents of", "style.css">>>>,
                           <<<<"system_report_summary.html">>, generate_html(sub_reports)>>>>
    /\ pc' = "read_static"
    /\ UNCHANGED <<is_root, static, yaml_config, command_configs, stdout, line, config, taken,
                   sub_report, finish_event, events, spinner, threads, sub_reports,
                   archive, processes>>

\* Lines 186-190 (after the for loop has ended).
Render ==
    /\ pc = "next_command"
    /\ taken = Len(command_configs)
    /\ files' = files \o <<<<<<"system_report_summary.html">>, generate_html(sub_reports)>>,
                           <<<<"style.css">>, <<"contents of", "style.css">>>>>>
    /\ pc' = "read_static"
    /\ UNCHANGED <<is_root, static, yaml_config, command_configs, stdout, line, config, taken, sub_report,
                   finish_event, events, spinner, threads, sub_reports, archive,
                   processes>>

\* A directory is [files, dirs]: its regular files as <<name, content>>
\* pairs and its subdirectories as <<name, directory>> pairs, both in the
\* order os.walk lists them.
Directory(file_entries, dir_entries) == [files |-> file_entries, dirs |-> dir_entries]

Names(entries) == [k \in DOMAIN entries |-> entries[k][1]]

\* The static/ trees the package may be installed with.
StaticTrees ==
    LET icon == <<"icon.svg", <<"contents of", "static/icon.svg">>>>
        font == <<"font.ttf", <<"contents of", "static/font.ttf">>>>
        nested == <<"logo.svg", <<"contents of", "static/img/logo.svg">>>>
        shadow == <<"icon.svg", <<"contents of", "static/img/icon.svg">>>>
    IN  {Directory(<<>>, <<>>),
         Directory(<<icon>>, <<>>),
         Directory(<<icon, font>>, <<>>),
         Directory(<<icon>>, <<<<"img", Directory(<<nested>>, <<>>)>>>>),
         Directory(<<icon>>, <<<<"img", Directory(<<shadow>>, <<>>)>>>>)}

\* The directory at `path` (a sequence of names) below `tree`.
RECURSIVE DirectoryAt(_, _)
DirectoryAt(tree, path) ==
    IF path = <<>> THEN tree
    ELSE LET k == CHOOSE k \in DOMAIN tree.dirs : tree.dirs[k][1] = path[1]
         IN  DirectoryAt(tree.dirs[k][2], Tail(path))

\* os.walk(path), top-down: a directory's triple, then its subdirectories'.
RECURSIVE OsWalk(_, _)
RECURSIVE OsWalkEach(_, _, _)
OsWalk(tree, path) ==
    LET here == DirectoryAt(tree, path)
    IN  <<[root |-> path, dirs |-> Names(here.dirs), files |-> Names(here.files)]>>
        \o OsWalkEach(tree, path, Names(here.dirs))

OsWalkEach(tree, path, dirnames) ==
    IF dirnames = <<>> THEN <<>>
    ELSE OsWalk(tree, Append(path, dirnames[1]))
         \o OsWalkEach(tree, path, Tail(dirnames))

\* open(os.path.join(dir, file), "r").read(): the content of the regular
\* file of that name in `dir`, or an OSError when `dir` holds none.
OpenAndRead(tree, dir, file) ==
    LET here == DirectoryAt(tree, dir)
        found == {k \in DOMAIN here.files : here.files[k][1] = file}
    IN  IF found = {} THEN [error |-> TRUE, content |-> None]
        ELSE [error |-> FALSE, content |-> here.files[CHOOSE k \in found : TRUE][2]]

\* Lines 192-198.  [error, dest]: whether an exception left the function,
\* and the list `dest` as the calls so far have extended it.
RECURSIVE read_files_from_dir(_, _, _)
RECURSIVE WalkLoop(_, _, _, _)
RECURSIVE FilesLoop(_, _, _, _)
RECURSIVE DirsLoop(_, _, _, _)
read_files_from_dir(tree, dir, dest) ==
    WalkLoop(tree, dir, OsWalk(tree, dir), [error |-> FALSE, dest |-> dest])

\* for root, dirs, files in os.walk(dir)
WalkLoop(tree, dir, triples, acc) ==
    IF acc.error \/ triples = <<>> THEN acc
    ELSE LET after_files == FilesLoop(tree, dir, triples[1].files, acc)
             after_dirs == DirsLoop(tree, triples[1].root, triples[1].dirs, after_files)
         IN  WalkLoop(tree, dir, Tail(triples), after_dirs)

\* for file in files: the file is opened under `dir`, the directory the
\* function was called on, not under the triple's root.
FilesLoop(tree, dir, filenames, acc) ==
    IF acc.error \/ filenames = <<>> THEN acc
    ELSE LET opened == OpenAndRead(tree, dir, filenames[1])
         IN  IF opened.error THEN [acc EXCEPT !.error = TRUE]
             ELSE FilesLoop(tree, dir, Tail(filenames),
                            [acc EXCEPT !.dest =
                                Append(@, <<<<"static/", filenames[1]>>, opened.content>>)])

\* for dirname in dirs: read_files_from_dir(os.path.join(root, dirname), dest)
DirsLoop(tree, root, dirnames, acc) ==
    IF acc.error \/ dirnames = <<>> THEN acc
    ELSE LET inner == read_files_from_dir(tree, Append(root, dirnames[1]), acc.dest)
         IN  DirsLoop(tree, root, Tail(dirnames), inner)

\* The reverse of a sequence.
Reverse(seq) == [k \in DOMAIN seq |-> seq[Len(seq) + 1 - k]]

\* ReadStatic with the entries of the walk registered in the reverse of the
\* order os.walk lists them.
ReadStaticReversed ==
    /\ pc = "read_static"
    /\ \E tree \in StaticTrees :
          LET walked == read_files_from_dir(tree, <<>>, <<>>)
          IN  /\ static' = tree
              /\ files' = files \o Reverse(walked.dest)
              /\ pc' = IF walked.error THEN "crashed" ELSE "write_archive"
    /\ UNCHANGED <<is_root, yaml_config, command_configs, stdout, line, config, taken,
                   sub_report, finish_event, events, spinner, threads, sub_reports,
                   archive, processes>>

\* Line 200 and the return at 202: the walk of static/ extends the file
\* list; an exception in it ends the process with a traceback.
ReadStatic ==
    /\ pc = "read_static"
    /\ \E tree \in StaticTrees :
          LET walked == read_files_from_dir(tree, <<>>, files)
          IN  /\ static' = tree
              /\ IF walked.error
                 THEN /\ pc' = "crashed"
                      /\ files' = walked.dest
                 ELSE /\ pc' = "write_archive"
                      /\ files' = walked.dest
    /\ UNCHANGED <<is_root, yaml_config, command_configs, stdout, line, config, taken, sub_report,
                   finish_event, events, spinner, threads, sub_reports, archive,
                   processes>>

\* ------------------------------------------------------------------------
\* main: the archive
\* ------------------------------------------------------------------------

\* Lines 214-218: the archive file is opened and every pair of the file
\* list is written to it in order.
WriteArchive ==
    /\ pc = "write_archive"
    /\ archive' = files
    /\ pc' = "done"
    /\ UNCHANGED <<is_root, static, yaml_config, command_configs, stdout, line, config, taken, sub_report,
                   finish_event, events, spinner, threads, sub_reports, files,
                   processes>>

Next ==
    \/ ReadCommand
    \/ ReadCommandsReturn
    \/ StartCommand
    \/ PollFinished
    \/ PollTimeout
    \/ Collect
    \/ \E t \in DOMAIN threads : Worker(t)
    \/ Render
    \/ ReadStatic
    \/ WriteArchive

Spec == Init /\ [][Next]_vars

\* Spec with the scheduling the interpreter and the scripts give: a worker
\* thread that can take a step takes one in the end (a script that is
\* started ends), and so does the main thread once the Event it waits for
\* is set (a wait returns, the lines after the loop run).
FairSpec ==
    /\ Spec
    /\ WF_vars(PollFinished \/ Collect)
    /\ WF_vars(\E t \in DOMAIN threads : Worker(t))

\* ------------------------------------------------------------------------
\* Properties
\* ------------------------------------------------------------------------

\* Every SubReportResult that exists: returned in a thread, held by the
\* cell, or collected.
Results ==
    {threads[t].result : t \in {t \in DOMAIN threads : threads[t].result # None}}
    \cup (IF sub_report # None THEN {sub_report} ELSE {})
    \cup {sub_reports[k] : k \in DOMAIN sub_reports}

\* The command scripts run so far for the command `name`, and those among
\* them that exited with status 0.  (A script text is <<kind, name, depth>>.)
Attempts(name) == {p \in processes : p.input = None /\ p.script[2] = name}
Succeeded(name) == {p \in Attempts(name) : p.status = "zero"}
SummaryRuns == {p \in processes : p.input # None}

\* The spec at `depth` of a chain.
RECURSIVE SpecAt(_, _)
SpecAt(chain, depth) == IF depth = 1 THEN chain ELSE SpecAt(chain.on_fail, depth - 1)

\* The spec of the configuration whose script is `script`.
SpecOf(script) == SpecAt(command_configs[script[2][2]], script[3])

\* C1: a result's raw_output is the captured output of the one attempt of
\* its chain that succeeded, every attempt before it having failed; the
\* output of a failed attempt is neither the raw_output nor the input of any
\* summary script, all of which are fed the successful attempt's output.
C1_ResultIsLastAttemptOnly ==
    /\ \A r \in Results :
          /\ Cardinality(Succeeded(r.name)) = 1
          /\ \A p \in Succeeded(r.name) :
                /\ r.raw_output = CapturedOutput(p.script, None)
                /\ \A q \in Attempts(r.name) \ {p} :
                      /\ q.script[3] < p.script[3]
                      /\ r.raw_output # CapturedOutput(q.script, None)
                /\ \A d \in 1..(p.script[3] - 1) :
                      [script |-> ScriptText(r.name, d), input |-> None,
                       status |-> "nonzero"] \in processes
    /\ \A s \in SummaryRuns :
          \E p \in Succeeded(s.script[2]) :
              /\ p.script[3] = s.script[3]
              /\ s.input = CapturedOutput(p.script, None)

\* C1 witness: a collected result of a chain whose first attempt failed,
\* with a summary script run on the fallback's output.
C1_Witness ==
    \E k \in DOMAIN sub_reports :
        /\ Attempts(sub_reports[k].name) \ Succeeded(sub_reports[k].name) # {}
        /\ \E s \in SummaryRuns : s.script[2] = sub_reports[k].name

\* C2: a result has as many summaries as the spec whose attempt succeeded
\* has summary specs, and the i-th summary carries the i-th spec's title,
\* whichever summary scripts failed.
C2_SummariesMatchSpecs ==
    \A r \in Results :
        \A p \in Succeeded(r.name) :
            LET spec == SpecOf(p.script)
            IN  /\ Len(r.summaries) = Len(spec.summary_configs)
                /\ \A i \in DOMAIN spec.summary_configs :
                      r.summaries[i].title = spec.summary_configs[i].title

\* C2 witness: a collected result with two summaries, the first of which
\* failed and the second of which succeeded.
C2_Witness ==
    \E k \in DOMAIN sub_reports :
        /\ Len(sub_reports[k].summaries) = 2
        /\ sub_reports[k].summaries[1].content = <<"this summary is empty">>
        /\ sub_reports[k].summaries[2].content # <<"this summary is empty">>

\* Whether a mapping, or an on-fail mapping below it, asks for
\* superuser: required.
RECURSIVE RequiresPrivilege(_)
RequiresPrivilege(mapping) ==
    \/ "superuser" \in DOMAIN mapping /\ mapping["superuser"] = "required"
    \/ "on-fail" \in DOMAIN mapping /\ RequiresPrivilege(mapping["on-fail"])

\* C3: when a command of the configuration asks for required privilege
\* and the process is not root, the process exits in the constructor: at
\* that point no script has been run, no thread started and no archive
\* opened, and the process does nothing further.
C3_RequiredPrivilegeAborts ==
    /\ (yaml_config # None /\ ~is_root /\ RequiresPrivilege(yaml_config))
          => pc = "exited"
    /\ pc = "exited" =>
          /\ processes = {}
          /\ threads = <<>>
          /\ archive = None
          /\ ~ENABLED Next

\* C3 witness: the second command of the file asks for required privilege,
\* the user is not root, and the process has exited on it.
C3_Witness ==
    /\ pc = "exited"
    /\ ~is_root
    /\ Len(command_configs) = 1
    /\ {"run", "superuser"} \subseteq DOMAIN yaml_config
    /\ yaml_config["superuser"] = "required"
    /\ stdout[Len(stdout)] = <<"Error: insufficient permissions", yaml_config["run"]>>

\* The commands whose loop body (lines 161-184) has run to its end.
NumCollected == IF pc \in {"poll", "collect"} THEN taken - 1 ELSE taken
Collected(name) == name[2] <= NumCollected

\* C4: after a summary script has failed, the fallback of its command is
\* not attempted; the command's result holds the sentinel at that summary's
\* place, and every summary script of the spec has been run by the time the
\* result exists; once the command is collected its result is among the
\* sub-reports.
C4_SummaryFailureContained ==
    \A s \in {s \in SummaryRuns : s.status = "nonzero"} :
        LET name == s.script[2]
            spec == SpecOf(s.script)
        IN  /\ \A q \in Attempts(name) : q.script[3] <= s.script[3]
            /\ \A r \in {r \in Results : r.name = name} :
                  /\ Len(r.summaries) = Len(spec.summary_configs)
                  /\ r.summaries[s.script[4]].content = <<"this summary is empty">>
                  /\ \A i \in DOMAIN spec.summary_configs :
                        \E p \in SummaryRuns :
                            p.script = spec.summary_configs[i].script
            /\ Collected(name) =>
                  \E k \in DOMAIN sub_reports : sub_reports[k].name = name

\* C4 witness: a collected result both of whose summary scripts failed.
C4_Witness ==
    \E k \in DOMAIN sub_reports :
        /\ Len(sub_reports[k].summaries) = 2
        /\ \A i \in 1..2 : sub_reports[k].summaries[i].content = <<"this summary is empty">>
        /\ Cardinality({s \in SummaryRuns : /\ s.script[2] = sub_reports[k].name
                                             /\ s.status = "nonzero"}) = 2

\* The collected commands that had a successful attempt, in configuration
\* order, and the file entries the loop registers for them.
SuccessfulCommands ==
    SelectSeq([i \in 1..NumCollected |-> i],
              LAMBDA i : Succeeded(CommandName(i)) # {})

SuccessfulOutput(i) ==
    CapturedOutput((CHOOSE p \in Succeeded(CommandName(i)) : TRUE).script, None)

CommandFiles ==
    LET with_file == SelectSeq(SuccessfulCommands,
                               LAMBDA i : command_configs[i].output_file # None)
    IN  [k \in DOMAIN with_file |->
            <<command_configs[with_file[k]].output_file,
              SuccessfulOutput(with_file[k])>>]

\* C5: the sub-report list holds exactly one result for each collected
\* command that had a successful attempt, in configuration order, and the
\* file list starts with the entries of those commands alone: a command
\* whose chain failed adds neither.  The list handed to the template is
\* that list.
C5_SubReportsAreSuccessfulCommands ==
    /\ pc \notin {"read_commands", "exited"} =>
          /\ [k \in DOMAIN sub_reports |-> sub_reports[k].name]
                = [k \in DOMAIN SuccessfulCommands |-> CommandName(SuccessfulCommands[k])]
          /\ \A k \in DOMAIN sub_reports :
                sub_reports[k].raw_output = SuccessfulOutput(SuccessfulCommands[k])
          /\ Len(files) >= Len(CommandFiles)
          /\ SubSeq(files, 1, Len(CommandFiles)) = CommandFiles
    /\ pc \in {"next_command", "poll", "collect"} => files = CommandFiles
    /\ pc \in {"read_static", "write_archive", "done", "crashed"} =>
          files[Len(CommandFiles) + 1] =
              <<<<"system_report_summary.html">>, generate_html(sub_reports)>>

\* C5 witness: the run has ended; the first command failed with its whole
\* chain and left nothing, the second succeeded and is the only sub-report.
C5_Witness ==
    /\ pc = "done"
    /\ Len(command_configs) >= 2
    /\ Attempts(CommandName(1)) # {}
    /\ Succeeded(CommandName(1)) = {}
    /\ Len(sub_reports) = 1
    /\ sub_reports[1].name = CommandName(2)
    /\ stdout[Len(stdout)] = <<"status", CommandName(2), "completed">>
    /\ \E k \in DOMAIN stdout : stdout[k] = <<"status", CommandName(1), "failed">>

\* C6 (as claimed): when the attempt that succeeded is a fallback and its
\* spec names an output file F, the file list holds an entry named F with
\* that attempt's output.
C6_FallbackOutputFileRegistered ==
    \A k \in DOMAIN sub_reports :
        LET r == sub_reports[k]
        IN  (r.output_file # None /\ \E p \in Succeeded(r.name) : p.script[3] >= 2)
              => \E j \in DOMAIN files : files[j] = <<r.output_file, r.raw_output>>

\* C7 (as claimed): a command mapping that holds `run` and no `output` is
\* accepted by the constructor.
C7_OutputIsOptional ==
    (yaml_config # None /\ DOMAIN yaml_config = {"run"}) => pc # "exited"

WithoutKey(mapping, key) == [k \in DOMAIN mapping \ {key} |-> mapping[k]]

Printed(message) == \E k \in DOMAIN stdout : stdout[k] = message

C9_FileListOrder ==
    pc \in {"write_archive", "done"} =>
        LET n == Len(CommandFiles)
        IN  /\ Len(files) >= n + 2
            /\ SubSeq(files, 1, n) = CommandFiles
            /\ files[n + 1][1] = <<"system_report_summary.html">>
            /\ files[n + 2][1] = <<"style.css">>
            /\ \A j \in (n + 3)..Len(files) : files[j][1][1] = "static/"
            /\ pc = "done" => archive = files

\* C9 witness: a written archive with two command entries, the index, the
\* stylesheet and two static entries.
C9_Witness ==
    /\ pc = "done"
    /\ Len(CommandFiles) = 2
    /\ Len(archive) = 6

\* C10: a thread that has not ended is the one started last, it belongs to
\* the command the main thread is polling for, and run_command in it works
\* on that command's chain; every earlier thread has ended and set its
\* Event.  So no two threads are ever inside run_command together.
C10_OneCommandInFlight ==
    /\ \A t \in DOMAIN threads :
          /\ threads[t].pc # "done" =>
                /\ t = Len(threads)
                /\ t = taken
                /\ pc = "poll"
          /\ threads[t].pc = "done" => events[t]
          /\ Running(t) => threads[t].config.name = CommandName(t)
    /\ Cardinality({t \in DOMAIN threads : Running(t)}) <= 1

\* C10 witness: the thread of the second command is running a summary
\* script; the first command's thread has ended.
C10_Witness ==
    /\ Len(threads) = 2
    /\ threads[1].pc = "done"
    /\ threads[2].pc = "summary"

\* Whether a command mapping holds a configuration error: the mapping, or
\* an on-fail mapping below it, lacks a field line 32 requires or holds a
\* superuser value other than required and preferred, or an entry of a
\* summary list lacks its title or its run.
RECURSIVE HasConfigError(_)
HasConfigError(mapping) ==
    \/ "run" \notin DOMAIN mapping
    \/ "output" \notin DOMAIN mapping
    \/ "superuser" \in DOMAIN mapping
          /\ mapping["superuser"] \notin {"required", "preferred"}
    \/ "summary" \in DOMAIN mapping
          /\ \E j \in DOMAIN mapping["summary"] :
                ~({"title", "run"} \subseteq DOMAIN mapping["summary"][j])
    \/ "on-fail" \in DOMAIN mapping /\ HasConfigError(mapping["on-fail"])

ErrorLines == {"Error: config is invalid", "Error: summary config is incomplete",
               "Error: insufficient permissions"}

\* C11: an item of the configuration that holds a configuration error, at
\* whatever place of the file and of the item, ends the process in
\* read_commands with an error line printed last; until read_commands has
\* returned no script has been run, no thread started and no archive
\* opened, and an exited process does nothing further.
C11_ConfigErrorAbortsBeforeAnyScript ==
    /\ (yaml_config # None /\ HasConfigError(yaml_config)) =>
          /\ pc = "exited"
          /\ stdout # <<>>
          /\ stdout[Len(stdout)][1] \in ErrorLines
    /\ pc \in {"read_commands", "exited"} =>
          /\ processes = {}
          /\ threads = <<>>
          /\ archive = None
    /\ pc = "exited" => ~ENABLED Next

\* C11 witness: the last command of the file, read after a valid one, has
\* an on-fail mapping without `run`; the process has exited on it.
C11_Witness ==
    /\ pc = "exited"
    /\ Len(command_configs) = 1
    /\ yaml_config # None
    /\ {"run", "output", "on-fail"} \subseteq DOMAIN yaml_config
    /\ "run" \notin DOMAIN yaml_config["on-fail"]
    /\ stdout[Len(stdout)] = <<"Error: config is invalid", CommandName(2)>>
    /\ processes = {}

\* Every regular file of a tree, as <<name, content>> pairs.
RECURSIVE TreeFiles(_)
RECURSIVE TreeFilesEach(_)
TreeFiles(tree) == tree.files \o TreeFilesEach(tree.dirs)

TreeFilesEach(dir_entries) ==
    IF dir_entries = <<>> THEN <<>>
    ELSE TreeFiles(dir_entries[1][2]) \o TreeFilesEach(Tail(dir_entries))

\* The entries the walk of static/ has added to the file list.
StaticEntries == SubSeq(files, Len(CommandFiles) + 3, Len(files))

\* C12 (as claimed): the walk of the static/ tree ends without an error,
\* and the entries it has registered are one per regular file of the tree,
\* each named static/<file name> and holding that file's content.
C12_StaticWalkOneEntryPerFile ==
    /\ pc # "crashed"
    /\ pc \in {"write_archive", "done"} =>
          /\ Len(StaticEntries) = Len(TreeFiles(static))
          /\ \A f \in DOMAIN TreeFiles(static) :
                \E k \in DOMAIN StaticEntries :
                    StaticEntries[k] = <<<<"static/", TreeFiles(static)[f][1]>>,
                                         TreeFiles(static)[f][2]>>

\* What the script `script` did when run on `input` in this run: its exit
\* status, or "not run".
Outcome(script, input) ==
    LET runs == {p \in processes : p.script = script /\ p.input = input}
    IN  IF runs = {} THEN "not run" ELSE (CHOOSE p \in runs : TRUE).status

\* A value no call of run_command returns: the reference below gives it
\* when it needs the outcome of a script the run has not run.
Undetermined == SubReportResult(<<"not run">>, None, None, <<>>)

\* Lines 126-143 as one call: the summaries of `summary_configs` on `out`.
RECURSIVE summaries_of(_, _)
summaries_of(summary_configs, out) ==
    IF summary_configs = <<>> THEN <<>>
    ELSE LET status == Outcome(summary_configs[1].script, out)
         IN  IF status = "not run" THEN <<Undetermined>>
             ELSE <<AfterSummary(<<>>, summary_configs[1], status, out)[1]>>
                  \o summaries_of(Tail(summary_configs), out)

\* Lines 122-148 as one call with no thread around it: what
\* run_command(spec) returns given the outcomes of the scripts.
RECURSIVE run_command(_)
run_command(spec) ==
    LET status == Outcome(spec.script, None)
        out == CapturedOutput(spec.script, None)
    IN  CASE status = "zero" ->
               SubReportResult(spec.name, out, spec.output_file,
                               summaries_of(spec.summary_configs, out))
          [] status = "nonzero" ->
               IF spec.on_fail # None THEN run_command(spec.on_fail) ELSE None
          [] OTHER -> Undetermined

\* Lines 160-184 with `sub_report = run_command(config)` in place of the
\* thread and the polling loop, on the first n commands: the sub-report
\* list and the file list.
RECURSIVE SequentialDriver(_)
SequentialDriver(n) ==
    IF n = 0 THEN [sub_reports |-> <<>>, files |-> <<>>]
    ELSE LET before == SequentialDriver(n - 1)
             spec == command_configs[n]
             result == run_command(spec)
         IN  IF result # None
             THEN [sub_reports |-> Append(before.sub_reports, result),
                   files |-> IF spec.output_file # None
                             THEN Append(before.files,
                                         <<spec.output_file, result.raw_output>>)
                             ELSE before.files]
             ELSE before

\* C13: whatever the scripts did and however the worker and the polling
\* loop interleaved, the value the main thread finds in sub_report after
\* the polling loop is the one run_command(config) returns when called
\* directly, and the sub-report list and the command entries of the file
\* list are those of the loop without thread and polling, after every
\* command and at the end of the run.
C13_ThreadedDriverMatchesSequential ==
    /\ pc = "collect" => sub_report = run_command(config)
    /\ pc \notin {"read_commands", "exited"} =>
          /\ sub_reports = SequentialDriver(NumCollected).sub_reports
          /\ Len(files) >= Len(SequentialDriver(NumCollected).files)
          /\ SubSeq(files, 1, Len(SequentialDriver(NumCollected).files))
                = SequentialDriver(NumCollected).files
    /\ pc \in {"next_command", "poll", "collect"} =>
          files = SequentialDriver(NumCollected).files

\* C13 witness: the second command is about to be collected after the
\* polling loop has painted three frames for it; its fallback succeeded
\* after the first attempt failed, and the first command was collected.
C13_Witness ==
    /\ pc = "collect"
    /\ taken = 2
    /\ line = <<"running", CommandName(2), spinner_frames[3]>>
    /\ sub_report # None
    /\ Attempts(CommandName(2)) \ Succeeded(CommandName(2)) # {}
    /\ Len(sub_reports) = 1

\* The file list of a run as a function of its inputs alone: the
\* configuration, the outcomes of the scripts and the static/ tree.
FilesOfRun ==
    LET driven == SequentialDriver(Len(command_configs))
    IN  read_files_from_dir(
            static, <<>>,
            driven.files
              \o <<<<<<"system_report_summary.html">>, generate_html(driven.sub_reports)>>,
                   <<<<"style.css">>, <<"contents of", "style.css">>>>>>)

\* Each script run in this run had one outcome for its text and input.
DeterministicScripts ==
    \A p, q \in processes : (p.script = q.script /\ p.input = q.input) => p = q

\* C14: with scripts whose outcome is a function of text and input, the
\* file list a run ends with, names and contents in order, is a function
\* of the configuration, the outcomes of the scripts and the static/ tree
\* walked in os.walk's order; so is whether the walk raises.  Nothing of
\* the scheduling of the threads or of the polling enters it: two runs
\* on the same inputs end with the same list, and the archive written is
\* that list.
C14_FileListIsFunctionOfInputs ==
    DeterministicScripts =>
        /\ pc \in {"write_archive", "done", "crashed"} =>
              /\ files = FilesOfRun.dest
              /\ (pc = "crashed") = FilesOfRun.error
        /\ pc = "done" => archive = FilesOfRun.dest

\* C14 witness: an archive written after two commands, one of which
\* failed an attempt, with a static/ directory of two files.
C14_Witness ==
    /\ pc = "done"
    /\ Len(sub_reports) = 2
    /\ \E p \in processes : p.status = "nonzero"
    /\ Len(static.files) = 2
    /\ Len(archive) = Len(CommandFiles) + 4

\* The failed attempts of the first n specs of the chain of `name`.
FailedPrefix(name, n) ==
    {[script |-> ScriptText(name, k), input |-> None, status |-> "nonzero"] :
        k \in 1..n}

\* Where run_command stands in thread t: the depth in the chain of the
\* spec it works on.
DepthIn(t) == threads[t].config.script[3]

\* The order of the attempts of every chain: the specs attempted so far
\* are the first ones of the chain, each once, all failed but possibly the
\* last; a spec is about to be attempted only when every spec before it,
\* and no other, has been attempted and has failed; run_command returns
\* a result right after the one attempt that succeeded, and returns
\* nothing only when the spec without fallback has failed after all others.
C15_ChainOrder ==
    /\ \A i \in DOMAIN command_configs :
          LET name == CommandName(i)
              n == Cardinality(Attempts(name))
          IN  /\ n <= ChainLength(command_configs[i])
              /\ FailedPrefix(name, n - 1) \subseteq Attempts(name)
              /\ n > 0 => \E p \in Attempts(name) : p.script = ScriptText(name, n)
    /\ \A t \in DOMAIN threads :
          LET name == CommandName(t)
              thread == threads[t]
          IN  /\ thread.pc = "attempt" => Attempts(name) = FailedPrefix(name, DepthIn(t) - 1)
              /\ (thread.pc = "summary" \/ (thread.pc \in {"store", "set"}
                                             /\ thread.result # None)) =>
                    Attempts(name) = FailedPrefix(name, DepthIn(t) - 1)
                        \cup {[script |-> ScriptText(name, DepthIn(t)),
                               input |-> None, status |-> "zero"]}
              /\ (thread.pc \in {"store", "set"} /\ thread.result = None) =>
                    /\ thread.config.on_fail = None
                    /\ DepthIn(t) = ChainLength(command_configs[t])
                    /\ Attempts(name) = FailedPrefix(name, DepthIn(t))

\* C15: the attempts of a chain follow C15_ChainOrder in every state, and
\* a thread that is inside run_command leaves it: run_command returns.
C15_FallbackChainTerminates ==
    /\ []C15_ChainOrder
    /\ \A t \in 1..MaxEntries :
          (t \in DOMAIN threads /\ Running(t))
              ~> (t \in DOMAIN threads /\ threads[t].pc \in {"store", "set", "done"})

\* C15 witness: run_command has returned nothing for a chain of three
\* specs, each attempted and failed.
C15_Witness ==
    /\ Len(threads) = 1
    /\ threads[1].pc = "store"
    /\ threads[1].result = None
    /\ Attempts(CommandName(1)) = FailedPrefix(CommandName(1), 3)

\* The final status lines printed for the i-th command.
StatusLines(i) ==
    {k \in DOMAIN stdout : stdout[k][1] = "status" /\ stdout[k][2] = CommandName(i)}

\* The final status lines in every state: one for each command whose loop
\* body has ended and none for any other; it reads "completed" exactly
\* when run_command returned a SubReportResult for the command (which is
\* then among the sub-reports).  A frame is on the terminal's line only for
\* the command in flight, and one can be painted only inside the polling
\* loop while the Event is unset: none after completion has been observed.
C16_StatusLines ==
    /\ \A i \in DOMAIN command_configs :
          /\ Cardinality(StatusLines(i)) = IF i <= NumCollected THEN 1 ELSE 0
          /\ \A k \in StatusLines(i) :
                /\ stdout[k][3] \in {"completed", "failed"}
                /\ (stdout[k][3] = "completed") = (run_command(command_configs[i]) # None)
                /\ (stdout[k][3] = "completed")
                      = (\E j \in DOMAIN sub_reports : sub_reports[j].name = CommandName(i))
    /\ line # None =>
          /\ pc \in {"poll", "collect"}
          /\ line[2] = CommandName(taken)
    /\ ENABLED PollTimeout => (pc = "poll" /\ ~events[finish_event])
    /\ pc = "collect" => events[finish_event]

\* C16: C16_StatusLines holds in every state, and once the worker's call
\* of run_command has returned for a command, the polling loop is left
\* and the command's final status line is printed.
C16_CompletionObservedAndReportedOnce ==
    /\ []C16_StatusLines
    /\ \A t \in 1..MaxEntries :
          (t \in DOMAIN threads /\ threads[t].pc \in {"store", "set", "done"})
              ~> ((pc # "poll" \/ taken # t) /\ Cardinality(StatusLines(t)) = 1)

\* C16 witness: the first command failed and the second completed; both
\* final lines are printed, the second thread has ended and the terminal's
\* line is empty again.
C16_Witness ==
    /\ pc = "next_command"
    /\ taken = 2
    /\ line = None
    /\ threads[2].pc = "done"
    /\ stdout = <<<<"status", CommandName(1), "failed">>,
                  <<"status", CommandName(2), "completed">>>>

\* The steps that write to the terminal.
TerminalChanged == stdout' # stdout \/ line' # line

\* C17: every step that changes what is printed is a step of the main
\* thread (a constructor's message in read_commands, when no thread has
\* been started yet, the first painting of a command's line, a frame of
\* the polling loop, the final line); a
\* step of a worker thread, whether its script succeeded or failed and
\* whether it was a command's or a summary's, is taken while the main
\* thread is in the polling loop and leaves the terminal as it was.
C17_OnlyMainThreadWrites ==
    [][/\ TerminalChanged =>
             \/ pc = "read_commands" /\ threads = <<>> /\ UNCHANGED <<threads, line>>
             \/ StartCommand
             \/ PollTimeout
             \/ Collect
       /\ \A t \in DOMAIN threads :
             Worker(t) => (pc = "poll" /\ UNCHANGED <<stdout, line>>)]_vars

\* C17 witness: the worker is about to return after a failed attempt, a
\* successful fallback and a failed summary script; nothing but the
\* polling loop's frame is on the terminal.
C17_Witness ==
    /\ Len(threads) = 1
    /\ threads[1].pc = "store"
    /\ \E p \in Attempts(CommandName(1)) : p.status = "nonzero"
    /\ \E p \in Succeeded(CommandName(1)) : TRUE
    /\ \E s \in SummaryRuns : s.status = "nonzero"
    /\ stdout = <<>>
    /\ line = <<"running", CommandName(1), spinner_frames[2]>>

\* The summary scripts run so far for the command `name`.
SummaryRunsOf(name) == {s \in SummaryRuns : s.script[2] = name}

\* C18: a summary script has been run only if the attempt of its own spec
\* has ended with status 0 before, on that attempt's captured output, after
\* every summary script before it in the spec's list, and once; while a
\* command script is about to run no summary script of the command has
\* been run, and while the summary loop has taken k specs exactly the first
\* k summary scripts of the spec that succeeded have been run.
C18_SummariesOnlyAfterSuccessInOrder ==
    /\ \A s \in SummaryRuns :
          LET name == s.script[2]
              depth == s.script[3]
              spec == SpecOf(s.script)
          IN  /\ [script |-> ScriptText(name, depth), input |-> None,
                  status |-> "zero"] \in processes
              /\ [script |-> ScriptText(name, depth), input |-> None,
                  status |-> "nonzero"] \notin processes
              /\ s.input = CapturedOutput(spec.script, None)
              /\ s.script[4] \in DOMAIN spec.summary_configs
              /\ s.script = spec.summary_configs[s.script[4]].script
              /\ \A j \in 1..(s.script[4] - 1) :
                    \E q \in SummaryRuns : /\ q.script = spec.summary_configs[j].script
                                           /\ q.input = s.input
              /\ \A q \in SummaryRuns : q.script = s.script => q = s
    /\ \A t \in DOMAIN threads :
          /\ threads[t].pc = "attempt" => SummaryRunsOf(CommandName(t)) = {}
          /\ threads[t].pc = "summary" =>
                {s.script : s \in SummaryRunsOf(CommandName(t))}
                    = {threads[t].config.summary_configs[j].script :
                          j \in 1..threads[t].taken}

\* C18 witness: the first of two summary scripts of a command has been run
\* on the output of the attempt that succeeded; the second is next.
C18_Witness ==
    /\ Len(threads) = 1
    /\ threads[1].pc = "summary"
    /\ threads[1].taken = 1
    /\ Len(threads[1].config.summary_configs) = 2
    /\ \E s \in SummaryRuns :
          /\ s.script = threads[1].config.summary_configs[1].script
          /\ s.input = threads[1].out
          /\ s.input = CapturedOutput(threads[1].config.script, None)

\* C19 (as claimed): the gate looks at the head spec of a chain only.  A
\* mapping without configuration error whose head does not ask for
\* required privilege is accepted without root, whatever its on-fail
\* mappings ask for.
C19_GateOnHeadSpecOnly ==
    (/\ yaml_config # None
     /\ ~is_root
     /\ ~HasConfigError(yaml_config)
     /\ ~("superuser" \in DOMAIN yaml_config /\ yaml_config["superuser"] = "required"))
        => pc # "exited"

\* Whether a result was produced by the worker of the command `name`: it
\* carries that name and the captured output of a script of that command.
ProducedFor(result, name) ==
    /\ result.name = name
    /\ result.raw_output[1] = "output of"
    /\ result.raw_output[2][2] = name
    /\ \E p \in Succeeded(name) : result.raw_output = CapturedOutput(p.script, None)

\* C20: the main thread reads sub_report (state "collect") only when the
\* worker of the current command has assigned it and then set the Event,
\* the last statement of run(); what it reads is the return value of that worker: a result of the
\* current command if an attempt of its chain succeeded, None only if none
\* did.  Until that worker assigns it the cell holds the None of line 161,
\* never an earlier command's result.  So a "failed" line is printed only
\* for a command none of whose attempts succeeded, and every collected
\* result was produced for the command at its place.
C20_ResultReadAfterWritten ==
    /\ pc = "collect" =>
          /\ finish_event = taken
          /\ events[finish_event]
          /\ threads[taken].pc = "done"
          /\ (sub_report = None) = (Succeeded(CommandName(taken)) = {})
          /\ sub_report # None => ProducedFor(sub_report, CommandName(taken))
    /\ (pc = "poll" /\ threads[taken].pc \in {"run", "attempt", "summary", "store"}) =>
          sub_report = None
    /\ \A i \in DOMAIN command_configs :
          \A k \in StatusLines(i) :
              stdout[k][3] = "failed" => Succeeded(CommandName(i)) = {}
    /\ \A k \in DOMAIN sub_reports :
          ProducedFor(sub_reports[k], CommandName(SuccessfulCommands[k]))

\* C20 witness: the main thread is about to read the result of the second
\* command, written by the second worker, which has set its Event; the first
\* command's result was collected before.
C20_Witness ==
    /\ pc = "collect"
    /\ taken = 2
    /\ threads[2].pc = "done"
    /\ sub_report # None
    /\ sub_report.name = CommandName(2)
    /\ Len(sub_reports) = 1
    /\ sub_reports[1].name = CommandName(1)

====
